---- MODULE Spec2Model ----
(***************************************************************************)
(* rs-read-trimesh: load_trimesh / load_trimesh_with_flags (src/src/lib.rs) *)
(* as a state machine.  One load is: dispatch on the file extension, the    *)
(* chosen extractor (STL, PLY, OBJ, DAE with merge_meshes), scaling in      *)
(* place, TriMesh::with_flags.                                              *)
(*                                                                          *)
(* The parsed documents (stl_io's IndexedMesh, ply-rs' payload, tobj's      *)
(* models, dae-parser's Document) are read record by record: each iteration *)
(* of an extractor's loop consumes the next record of the document, drawn   *)
(* from a bounded set, and the end of the iteration is drawn as well.       *)
(*                                                                          *)
(* Integers wider than TLC's own are pairs <<hi, lo>>, value hi*2^16 + lo,  *)
(* so that u32, i32, u16, i16 and usize keep their ranges.  f32 values are  *)
(* fixed-point integers in units of 1/One; f64 values in units of           *)
(* 1/(One*Finer), and `as f32` rounds to the nearest f32, ties to even.     *)
(***************************************************************************)
EXTENDS Integers, Sequences, FiniteSets, TLC

VARIABLES
    pc,               \* position of the load in the code
    file_path,        \* argument file_path, a sequence of path tokens
    scale,            \* argument scale (f32)
    flags,            \* argument flags of load_trimesh_with_flags
    invoked,          \* the extractors called so far, in order
    rec_i,            \* enumerate() index of the record being read
    cur,              \* the record of the parsed document read last
    vertices,         \* local `vertices`
    indices,          \* local `indices`
    meshes,           \* local `meshes` of load_trimesh_from_dae
    content,          \* history: what the records read so far mean in their format
    raw,              \* history: the raw mesh the extractor returned
    passed_flags,     \* history: the flags handed to TriMesh::with_flags
    result,           \* what the load returned
    stdout            \* lines written to standard output

vars == <<pc, file_path, scale, flags, invoked, rec_i, cur,
          vertices, indices, meshes, content, raw, passed_flags, result, stdout>>

-----------------------------------------------------------------------------
(* Bounds of the model *)

MaxPathLen == 3
MaxVerts == 3
MaxFaces == 2
MaxGeoms == 2

-----------------------------------------------------------------------------
(* Integers: <<hi, lo>> stands for hi * 2^16 + lo, 0 <= lo < 2^16 *)

Limb == 256 * 256

Wide(n) == <<n \div Limb, n % Limb>>

WideLess(a, b) == a[1] < b[1] \/ (a[1] = b[1] /\ a[2] < b[2])

\* the exact sum
WideSum(a, b) ==
    LET lo == a[2] + b[2] IN <<a[1] + b[1] + (lo \div Limb), lo % Limb>>

FitsU32(w) == w[1] >= 0 /\ w[1] < Limb
FitsI32(w) == w[1] >= -(Limb \div 2) /\ w[1] < Limb \div 2
FitsU16(w) == w[1] = 0
FitsI16(w) ==
    \/ w[1] = 0 /\ w[2] < Limb \div 2
    \/ w[1] = -1 /\ w[2] >= Limb \div 2

U32Max == <<Limb - 1, Limb - 1>>

\* u32 arithmetic modulo 2^32
WrapU32(w) == <<w[1] % Limb, w[2]>>

\* (a cast `as u32` in its place: the value modulo 2^32)
wrapping_cast(w) == [ok |-> TRUE, val |-> WrapU32(w)]

\* T::try_into() -> Result<u32, _> for T in u32, i32, u16, i16, usize
try_into_u32(w) ==
    IF FitsU32(w) THEN [ok |-> TRUE, val |-> w] ELSE [ok |-> FALSE]

-----------------------------------------------------------------------------
(* Sequences *)

SeqsUpTo(S, n) == UNION {[1..k -> S] : k \in 0..n}

RECURSIVE Flatten(_)
Flatten(ss) == IF ss = <<>> THEN <<>> ELSE Head(ss) \o Flatten(Tail(ss))

\* slice::chunks_exact(3): the complete chunks, the remainder dropped
chunks_exact3(s) ==
    [k \in 1..(Len(s) \div 3) |-> <<s[3*k - 2], s[3*k - 1], s[3*k]>>]

\* t occurs in s as a contiguous run
Contains(s, t) ==
    \E k \in 0..(Len(s) - Len(t)) : \A j \in 1..Len(t) : s[k + j] = t[j]

-----------------------------------------------------------------------------
(* Paths.  A path is a sequence of tokens: the separator, the dot, and      *)
(* words (runs of other characters).  No word is a run of several words, so *)
(* two names are the same string exactly if they are the same tokens.       *)

Sep == "/"
Dot == "."
Words == {"a", "stl", "STL", "Ply", "obj", "DAE", "xyz"}
PathTokens == Words \cup {Sep, Dot}
Paths == SeqsUpTo(PathTokens, MaxPathLen)

\* str::to_lowercase of a word
LowerWord(w) ==
    CASE w = "STL" -> "stl"
      [] w = "Ply" -> "ply"
      [] w = "DAE" -> "dae"
      [] OTHER -> w

to_lowercase(s) == [k \in 1..Len(s) |-> LowerWord(s[k])]

\* the path split at its separators
RECURSIVE SplitAtSep(_, _)
SplitAtSep(p, acc) ==
    IF p = <<>> THEN <<acc>>
    ELSE IF Head(p) = Sep THEN <<acc>> \o SplitAtSep(Tail(p), <<>>)
    ELSE SplitAtSep(Tail(p), Append(acc, Head(p)))

\* Path::components(): empty components and "." components are skipped
\* (a leading "." is the CurDir component, never a Normal one)
Components(p) ==
    SelectSeq(SplitAtSep(p, <<>>), LAMBDA c : c # <<>> /\ c # <<Dot>>)

\* Path::file_name(): the last component when it is a Normal one; an Option
\* is the set of its values
file_name(p) ==
    LET cs == Components(p) IN
    IF cs = <<>> \/ cs[Len(cs)] = <<Dot, Dot>> THEN {} ELSE {cs[Len(cs)]}

LastDot(name) ==
    LET ds == {k \in 1..Len(name) : name[k] = Dot} IN
    IF ds = {} THEN 0 ELSE CHOOSE k \in ds : \A j \in ds : j <= k

\* Path::extension(): what follows the last dot of the file name; None when
\* there is no dot, or nothing before the last dot
extension(p) ==
    {SubSeq(name, LastDot(name) + 1, Len(name)) :
        name \in {n \in file_name(p) : LastDot(n) > 1}}

-----------------------------------------------------------------------------
(* f32 and f64 *)

One == 16
Epsilon == 2
Finer == 4

Abs(x) == IF x < 0 THEN -x ELSE x

\* n / d rounded to the nearest integer, ties to even
RoundDiv(n, d) ==
    LET q == n \div d
        r == n % d
    IN  IF 2 * r < d THEN q
        ELSE IF 2 * r > d THEN q + 1
        ELSE IF q % 2 = 0 THEN q ELSE q + 1

\* f32 * f32
FMul(a, b) == RoundDiv(a * b, One)

\* f64 as f32
as_f32(m) == RoundDiv(m, Finer)

\* the f64 that holds an f32 exactly
as_f64(v) == v * Finer

Point(x, y, z) == <<x, y, z>>

\* *vertex *= scale
ScaleVertex(v, k) == Point(FMul(v[1], k), FMul(v[2], k), FMul(v[3], k))

-----------------------------------------------------------------------------
(* Results *)

\* format!(text, args...)
Msg(text, args) == [text |-> text, args |-> args]

NoResult == [kind |-> "none"]
Ok(v, i, f) == [kind |-> "ok", mesh |-> [vertices |-> v, indices |-> i, flags |-> f]]
Err(msg) == [kind |-> "err", err |-> msg]
Panic(msg) == [kind |-> "panic", err |-> msg]

NoRecord == [kind |-> "none"]
NoContent == [V |-> <<>>, T |-> <<>>, parts |-> 0, wf |-> TRUE]
NoMesh == [vertices |-> <<>>, indices |-> <<>>]

\* TriMeshFlags
FIX_INTERNAL_EDGES == "FIX_INTERNAL_EDGES"
MERGE_DUPLICATE_VERTICES == "MERGE_DUPLICATE_VERTICES"
\* the bits of FIX_INTERNAL_EDGES include those of MERGE_DUPLICATE_VERTICES
FlagSets == {{}, {MERGE_DUPLICATE_VERTICES}, {FIX_INTERNAL_EDGES, MERGE_DUPLICATE_VERTICES}}
NoFlags == {}

Scales == {One, One - 1, One + Epsilon, 2 * One, One \div 2}

-----------------------------------------------------------------------------
(* merge_meshes *)

Points == {Point(0, 0, 0), Point(One, 2 * One, -7)}

Tri(a, b, c) == <<Wide(a), Wide(b), Wide(c)>>

\* triangles of the sub-meshes handed to merge_meshes: any u32 may be there
MergeTris == {Tri(0, 1, 2), <<U32Max, Wide(0), Wide(1)>>}

SubMesh(v, i) == [vertices |-> v, indices |-> i]

SubMeshes ==
    {SubMesh(v, i) : v \in SeqsUpTo(Points, MaxVerts), i \in SeqsUpTo(MergeTris, MaxFaces)}

\* i0 + vertex_offset on u32: the exact sum when it fits; otherwise the
\* build decides: a panic with overflow checks, the sum modulo 2^32 without
AddU32(a, b, checks) ==
    LET sum == WideSum(a, b) IN
    IF FitsU32(sum) THEN [ok |-> TRUE, val |-> sum]
    ELSE IF checks THEN [ok |-> FALSE]
    ELSE [ok |-> TRUE, val |-> WrapU32(sum)]

\* |[i0, i1, i2]| [i0 + vertex_offset, i1 + vertex_offset, i2 + vertex_offset]
Rebase(t, offset, checks) ==
    [k \in 1..3 |-> AddU32(t[k], offset, checks)]

RebaseAll(ts, offset, checks) ==
    [j \in 1..Len(ts) |-> Rebase(ts[j], offset, checks)]

Overflows(rebased) ==
    \E j \in 1..Len(rebased) : \E k \in 1..3 : ~rebased[j][k].ok

Values(rebased) ==
    [j \in 1..Len(rebased) |-> [k \in 1..3 |-> rebased[j][k].val]]

OverflowPanic == Panic(Msg("attempt to add with overflow", <<>>))

\* the loop of merge_meshes over what is left of `meshes`
RECURSIVE MergeLoop(_, _, _, _, _)
MergeLoop(ms, merged_vertices, merged_indices, vertex_offset, checks) ==
    IF ms = <<>>
    THEN [kind |-> "ok", vertices |-> merged_vertices, indices |-> merged_indices,
          out |-> <<>>]
    ELSE
        LET m == Head(ms)
            rebased == RebaseAll(m.indices, vertex_offset, checks)
            next_offset == AddU32(vertex_offset, WrapU32(Wide(Len(m.vertices))), checks)
        IN  IF Overflows(rebased) \/ ~next_offset.ok
            THEN [kind |-> "panic", vertices |-> <<>>, indices |-> <<>>, out |-> <<>>]
            ELSE MergeLoop(Tail(ms),
                           merged_vertices \o m.vertices,
                           merged_indices \o Values(rebased),
                           next_offset.val, checks)

merge_meshes(ms, checks) ==
    IF Len(ms) = 1
    THEN [kind |-> "ok", vertices |-> ms[1].vertices, indices |-> ms[1].indices,
          out |-> <<"Found single mesh:">>]
    ELSE MergeLoop(ms, <<>>, <<>>, Wide(0), checks)

\* merge_meshes on its own: `meshes` holds the argument, the outcome goes to
\* vertices, indices, stdout and, for a panic, result
InitMerge ==
    /\ pc = "merge_call"
    /\ meshes \in SeqsUpTo(SubMeshes, MaxGeoms)
    /\ file_path = <<>>
    /\ scale = One
    /\ flags = NoFlags
    /\ invoked = <<>>
    /\ rec_i = 0
    /\ cur = NoRecord
    /\ vertices = <<>>
    /\ indices = <<>>
    /\ content = NoContent
    /\ raw = NoMesh
    /\ passed_flags = NoFlags
    /\ result = NoResult
    /\ stdout = <<>>

MergeCall ==
    /\ pc = "merge_call"
    /\ \E checks \in BOOLEAN :
        LET r == merge_meshes(meshes, checks) IN
        /\ vertices' = r.vertices
        /\ indices' = r.indices
        /\ stdout' = stdout \o r.out
        /\ result' = IF r.kind = "panic" THEN OverflowPanic ELSE NoResult
    /\ pc' = "merge_done"
    /\ UNCHANGED <<file_path, scale, flags, invoked, rec_i, cur, meshes, content, raw,
                   passed_flags>>

NextMerge == MergeCall

SpecMerge == InitMerge /\ [][NextMerge]_vars

-----------------------------------------------------------------------------
(* Entry points and dispatch *)

Init ==
    /\ pc = "idle"
    /\ file_path = <<>>
    /\ scale = One
    /\ flags = NoFlags
    /\ invoked = <<>>
    /\ rec_i = 0
    /\ cur = NoRecord
    /\ vertices = <<>>
    /\ indices = <<>>
    /\ meshes = <<>>
    /\ content = NoContent
    /\ raw = NoMesh
    /\ passed_flags = NoFlags
    /\ result = NoResult
    /\ stdout = <<>>

\* load_trimesh_with_flags(file_path, scale, flags) is entered
Enter(p, k, f) ==
    /\ pc = "idle"
    /\ pc' = "dispatch"
    /\ file_path' = p
    /\ scale' = k
    /\ flags' = f
    /\ UNCHANGED <<invoked, rec_i, cur, vertices, indices, meshes,
                   content, raw, passed_flags, result, stdout>>

\* load_trimesh: the default flags
load_trimesh(P, S) ==
    \E p \in P, k \in S :
        Enter(p, k, {FIX_INTERNAL_EDGES, MERGE_DUPLICATE_VERTICES})

load_trimesh_with_flags(P, S, F) ==
    \E p \in P, k \in S, f \in F : Enter(p, k, f)

\* (the extension matched as written)
MatchKeyAsWritten(p) == extension(p)

\* the value the match at the head of load_trimesh_with_flags looks at
MatchKey(p) == {to_lowercase(e) : e \in extension(p)}

\* the arm the match takes
Arm(p) ==
    LET key == MatchKey(p) IN
    CASE key = {<<"stl">>} -> "stl"
      [] key = {<<"ply">>} -> "ply"
      [] key = {<<"obj">>} -> "obj"
      [] key = {<<"dae">>} -> "dae"
      [] OTHER -> "_"

FirstStep(arm) ==
    CASE arm = "stl" -> "stl_open"
      [] arm = "ply" -> "ply_open"
      [] arm = "obj" -> "obj_load"
      [] arm = "dae" -> "dae_open"

\* (the message without the path)
UnsupportedMsgBare(p) == Msg("Unsupported file extension", <<>>)

UnsupportedMsg(p) ==
    Msg("Unsupported file extension for '{}', only .stl, .ply, and .obj are supported.",
        <<p>>)

\* an error leaves the load through `?` or `return Err`
Fail(msg) ==
    /\ pc' = "done"
    /\ result' = Err(msg)

Dispatch ==
    /\ pc = "dispatch"
    /\ IF Arm(file_path) = "_"
         THEN /\ Fail(UnsupportedMsg(file_path))
              /\ UNCHANGED invoked
         ELSE /\ pc' = FirstStep(Arm(file_path))
              /\ invoked' = Append(invoked, Arm(file_path))
              /\ UNCHANGED result
    /\ UNCHANGED <<file_path, scale, flags, rec_i, cur, vertices,
                   indices, meshes, content, raw, passed_flags, stdout>>

\* the extractor returns Ok((vertices, indices)) to load_trimesh_with_flags
Return(v, i) ==
    /\ pc' = "scale"
    /\ vertices' = v
    /\ indices' = i
    /\ raw' = [vertices |-> v, indices |-> i]

IoError == "No such file or directory (os error 2)"
ParseError == "unexpected end of input"

\* File::open(..).map_err(..)?  fails
OpenFails(at, text) ==
    /\ pc = at
    /\ Fail(Msg(text, <<file_path, IoError>>))
    /\ UNCHANGED <<file_path, scale, flags, invoked, rec_i, cur, vertices, indices,
                   meshes, content, raw, passed_flags, stdout>>

\* the parser rejects the document
ParseFails(at, text, args) ==
    /\ pc = at
    /\ Fail(Msg(text, args))
    /\ UNCHANGED <<file_path, scale, flags, invoked, rec_i, cur, vertices, indices,
                   meshes, content, raw, passed_flags, stdout>>

\* one step of the code that reads no record and cannot fail
Goto(at, to) ==
    /\ pc = at
    /\ pc' = to
    /\ rec_i' = 0
    /\ UNCHANGED <<file_path, scale, flags, invoked, cur, vertices, indices, meshes,
                   content, raw, passed_flags, result, stdout>>

-----------------------------------------------------------------------------
(* load_trimesh_from_ply *)

Property(type, val) == [type |-> type, val |-> val]

Coords == <<"x", "y", "z">>

\* a vertex record that holds point p (f32 units) as floats or as doubles
PlyVertexRec(p, type) ==
    [c \in {"x", "y", "z"} |->
        LET v == p[CHOOSE k \in 1..3 : Coords[k] = c] IN
        Property(type, IF type = "Double" THEN as_f64(v) ELSE v)]

Without(rec, c) == [d \in DOMAIN rec \ {c} |-> rec[d]]
Retyped(rec, c, type) == [rec EXCEPT ![c] = Property(type, rec[c].val)]

P1 == Point(One, 2 * One, -7)

GoodPlyVertexRecs ==
    {PlyVertexRec(p, t) : p \in Points, t \in {"Float", "Double"}}

\* a double that no f32 holds
InexactPlyVertexRec ==
    [PlyVertexRec(P1, "Double") EXCEPT !["x"] = Property("Double", as_f64(One) + 2)]

BadPlyVertexRecs ==
    {Without(PlyVertexRec(P1, "Float"), c) : c \in {"x", "y", "z"}}
    \cup {Retyped(PlyVertexRec(P1, "Float"), c, "Int") : c \in {"x", "y", "z"}}
    \cup {Without(Retyped(PlyVertexRec(P1, "Float"), "x", "Int"), "y")}

PlyVertexRecs == GoodPlyVertexRecs \cup {InexactPlyVertexRec} \cup BadPlyVertexRecs

\* vertex.get(c).ok_or_else(..).and_then(|prop| match prop {..})?
Coordinate(vertex, c) ==
    IF c \notin DOMAIN vertex
    THEN [ok |-> FALSE, err |-> Msg("Missing '{c}' coordinate in vertex", <<c>>)]
    ELSE CASE vertex[c].type = "Float" -> [ok |-> TRUE, val |-> vertex[c].val]
           [] vertex[c].type = "Double" -> [ok |-> TRUE, val |-> as_f32(vertex[c].val)]
           [] OTHER ->
                [ok |-> FALSE,
                 err |-> Msg("Unexpected type for vertex '{c}' coordinate", <<c>>)]

\* the body of the loop over the vertex records: the point, or the first error
ReadVertex(vertex) ==
    LET x == Coordinate(vertex, "x")
        y == Coordinate(vertex, "y")
        z == Coordinate(vertex, "z")
    IN  IF ~x.ok THEN x
        ELSE IF ~y.ok THEN y
        ELSE IF ~z.ok THEN z
        ELSE [ok |-> TRUE, val |-> Point(x.val, y.val, z.val)]

ListUInt == "ListUInt"
ListInt == "ListInt"
ListUShort == "ListUShort"
ListShort == "ListShort"
IndexListTypes == {ListUInt, ListInt, ListUShort, ListShort}

\* the values a list of the type can hold
FitsType(type, w) ==
    CASE type = ListUInt -> FitsU32(w)
      [] type = ListInt -> FitsI32(w)
      [] type = ListUShort -> FitsU16(w)
      [] type = ListShort -> FitsI16(w)
      [] type = "ListUChar" -> FitsU16(w) /\ w[2] < 256

WideList(ns) == [k \in 1..Len(ns) |-> Wide(ns[k])]

IndexLists ==
    {WideList(ns) : ns \in {<<>>, <<0, 1>>, <<0, 1, 2>>, <<0, 1, 2, 0>>, <<0, 1, 2, -1>>,
                            <<2, 0, 3>>,
                            <<-1, 1, 2>>, <<0, 1, -1>>}}
    \cup {<<Wide(0), Wide(1), U32Max>>}

PlyFaceRec(type, list) == [vertex_indices |-> Property(type, list)]

\* a face without the property, under the name some writers use instead
MisnamedPlyFaceRec == [vertex_index |-> Property(ListInt, WideList(<<0, 1, 2>>))]

PlyFaceRecs ==
    {PlyFaceRec(e[1], e[2]) :
        e \in {d \in IndexListTypes \X IndexLists :
                    \A k \in 1..Len(d[2]) : FitsType(d[1], d[2][k])}}
    \cup {PlyFaceRec("ListUChar", WideList(<<0, 1, 2>>)), MisnamedPlyFaceRec}

\* (the last three elements of the list in place of the first three)
extract_indices_last_three(indices_list, i) ==
    LET n == Len(indices_list) IN
    IF n < 3
    THEN [ok |-> FALSE,
          err |-> Msg("Insufficient indices for a triangle in face {}", <<i>>)]
    ELSE IF \E k \in (n - 2)..n : ~try_into_u32(indices_list[k]).ok
    THEN [ok |-> FALSE,
          err |-> Msg("Failed to convert index 0 in face {} to u32", <<i>>)]
    ELSE [ok |-> TRUE, val |-> [k \in 1..3 |-> indices_list[n - 3 + k]]]

\* (no check of the length: what is missing is taken as 0)
extract_indices_padded(indices_list, i) ==
    LET at(k) == IF k <= Len(indices_list) THEN indices_list[k] ELSE Wide(0) IN
    IF \E k \in 1..3 : ~try_into_u32(at(k)).ok
    THEN [ok |-> FALSE,
          err |-> Msg("Failed to convert index 0 in face {} to u32", <<i>>)]
    ELSE [ok |-> TRUE, val |-> [k \in 1..3 |-> at(k)]]

\* extract_indices(indices_list, i)
extract_indices(indices_list, i) ==
    IF Len(indices_list) < 3
    THEN [ok |-> FALSE,
          err |-> Msg("Insufficient indices for a triangle in face {}", <<i>>)]
    ELSE
        LET a == try_into_u32(indices_list[1])
            b == try_into_u32(indices_list[2])
            c == try_into_u32(indices_list[3])
        IN  IF ~a.ok
            THEN [ok |-> FALSE,
                  err |-> Msg("Failed to convert index 0 in face {} to u32", <<i>>)]
            ELSE IF ~b.ok
            THEN [ok |-> FALSE,
                  err |-> Msg("Failed to convert index 1 in face {} to u32", <<i>>)]
            ELSE IF ~c.ok
            THEN [ok |-> FALSE,
                  err |-> Msg("Failed to convert index 2 in face {} to u32", <<i>>)]
            ELSE [ok |-> TRUE, val |-> <<a.val, b.val, c.val>>]

\* the body of the loop over the face records: match face.get("vertex_indices")
ReadFace(face, i) ==
    IF "vertex_indices" \notin DOMAIN face
    THEN [ok |-> FALSE,
          err |-> Msg("Missing 'vertex_indices' property for face {}", <<i>>)]
    ELSE IF face.vertex_indices.type \in IndexListTypes
    THEN extract_indices(face.vertex_indices.val, i)
    ELSE [ok |-> FALSE,
          err |-> Msg("Unexpected property type for 'vertex_indices' in face {}", <<i>>)]

\* what a vertex record means in the format: the point, in f64 units
PlyVertexMeaning(rec) ==
    IF DOMAIN rec = {"x", "y", "z"}
       /\ \A c \in DOMAIN rec : rec[c].type \in {"Float", "Double"}
    THEN {[k \in 1..3 |->
            LET prop == rec[Coords[k]] IN
            IF prop.type = "Float" THEN as_f64(prop.val) ELSE prop.val]}
    ELSE {}

\* what a face record means in the format: its index list, when a triangle
PlyFaceMeaning(rec) ==
    IF "vertex_indices" \in DOMAIN rec
       /\ rec.vertex_indices.type \in IndexListTypes
       /\ Len(rec.vertex_indices.val) = 3
    THEN {rec.vertex_indices.val}
    ELSE {}

\* the history of what was read: a point or a face more, or something else
MeansVertex(meaning) ==
    IF meaning = {} THEN [content EXCEPT !.wf = FALSE]
    ELSE [content EXCEPT !.V = @ \o [k \in 1..1 |-> CHOOSE m \in meaning : TRUE]]

MeansFace(meaning) ==
    IF meaning = {} THEN [content EXCEPT !.wf = FALSE]
    ELSE [content EXCEPT !.T = @ \o [k \in 1..1 |-> CHOOSE m \in meaning : TRUE]]

PlyOpenFails == OpenFails("ply_open", "Could not open PLY file '{}': {}")

PlyOpen == Goto("ply_open", "ply_parse")

PlyParseFails ==
    ParseFails("ply_parse", "Could not parse PLY file '{}': {}", <<file_path, ParseError>>)

\* the document is parsed and has a "vertex" payload
PlyParse ==
    /\ pc = "ply_parse"
    /\ pc' = "ply_vertex"
    /\ rec_i' = 0
    /\ content' = [content EXCEPT !.parts = 1]
    /\ UNCHANGED <<file_path, scale, flags, invoked, cur, vertices, indices, meshes,
                   raw, passed_flags, result, stdout>>

\* the document is parsed and has no "vertex" payload
PlyNoVertexPayload ==
    ParseFails("ply_parse", "No 'vertex' payload found in the PLY file", <<>>)

\* one iteration of `for vertex in vertices_elem`
PlyVertex(recs) ==
    /\ pc = "ply_vertex"
    /\ rec_i < MaxVerts
    /\ \E vertex \in recs :
        LET r == ReadVertex(vertex) IN
        /\ cur' = [kind |-> "ply_vertex", rec |-> vertex]
        /\ content' = MeansVertex(PlyVertexMeaning(vertex))
        /\ IF r.ok
             THEN /\ vertices' = Append(vertices, r.val)
                  /\ UNCHANGED <<pc, result>>
             ELSE /\ Fail(r.err)
                  /\ UNCHANGED vertices
    /\ rec_i' = rec_i + 1
    /\ UNCHANGED <<file_path, scale, flags, invoked, indices, meshes, raw,
                   passed_flags, stdout>>

\* the vertex records are read and the document has a "face" payload
PlyVertexEnd == Goto("ply_vertex", "ply_face")

\* the vertex records are read and the document has no "face" payload
PlyNoFacePayload ==
    ParseFails("ply_vertex", "No 'face' payload found in the PLY file", <<>>)

\* one iteration of `for (i, face) in faces_elem.iter().enumerate()`
PlyFace(recs) ==
    /\ pc = "ply_face"
    /\ rec_i < MaxFaces
    /\ \E face \in recs :
        LET r == ReadFace(face, rec_i) IN
        /\ cur' = [kind |-> "ply_face", rec |-> face]
        /\ content' = MeansFace(PlyFaceMeaning(face))
        /\ IF r.ok
             THEN /\ indices' = Append(indices, r.val)
                  /\ UNCHANGED <<pc, result>>
             ELSE /\ Fail(r.err)
                  /\ UNCHANGED indices
    /\ rec_i' = rec_i + 1
    /\ UNCHANGED <<file_path, scale, flags, invoked, vertices, meshes, raw,
                   passed_flags, stdout>>

\* Ok((vertices, indices))
PlyReturn ==
    /\ pc = "ply_face"
    /\ Return(vertices, indices)
    /\ UNCHANGED <<file_path, scale, flags, invoked, rec_i, cur, meshes, content,
                   passed_flags, result, stdout>>

-----------------------------------------------------------------------------
(* load_trimesh_from_stl *)

\* usize values a face of an IndexedMesh holds: an index of a vertex of the
\* mesh, or, in a mesh of more than 2^32 vertices, one beyond u32
TwoPow32 == <<Limb, 0>>

StlFaceShapes ==
    {Tri(0, 0, 0), Tri(0, 1, 2), Tri(2, 1, 0),
     <<TwoPow32, Wide(0), Wide(0)>>, <<Wide(0), <<Limb, 1>>, TwoPow32>>}

StlFaces(n) ==
    {f \in StlFaceShapes : \A k \in 1..3 : WideLess(f[k], Wide(n)) \/ ~FitsU32(f[k])}

\* the closure of .map(|face| ..): the converted face, or the first error
ConvertFace(face) ==
    LET bad == {k \in 1..3 : ~try_into_u32(face[k]).ok} IN
    IF bad = {}
    THEN [ok |-> TRUE, val |-> [k \in 1..3 |-> try_into_u32(face[k]).val]]
    ELSE LET k == CHOOSE j \in bad : \A m \in bad : j <= m IN
         [ok |-> FALSE,
          err |-> Msg("Could not convert vertex index {} in face {:?} to u32",
                      <<face[k], face>>)]

StlOpenFails == OpenFails("stl_open", "Could not open STL file {}: {}")

StlOpen == Goto("stl_open", "stl_parse")

StlParseFails ==
    ParseFails("stl_parse", "Could not parse STL file {}: {}", <<file_path, ParseError>>)

StlParse ==
    /\ pc = "stl_parse"
    /\ pc' = "stl_vertex"
    /\ rec_i' = 0
    /\ content' = [content EXCEPT !.parts = 1]
    /\ UNCHANGED <<file_path, scale, flags, invoked, cur, vertices, indices, meshes,
                   raw, passed_flags, result, stdout>>

\* one vertex of stl.vertices through .map(|vertex| Point::new(..))
StlVertex(points) ==
    /\ pc = "stl_vertex"
    /\ rec_i < MaxVerts
    /\ \E vertex \in points :
        /\ cur' = [kind |-> "stl_vertex", rec |-> vertex]
        /\ content' = MeansVertex({[k \in 1..3 |-> as_f64(vertex[k])]})
        /\ vertices' = Append(vertices, Point(vertex[1], vertex[2], vertex[3]))
    /\ rec_i' = rec_i + 1
    /\ UNCHANGED <<pc, file_path, scale, flags, invoked, indices, meshes, raw,
                   passed_flags, result, stdout>>

StlVertexEnd == Goto("stl_vertex", "stl_face")

\* one face of stl.faces through the closure and collect::<Result<..>>()?
StlFace ==
    /\ pc = "stl_face"
    /\ rec_i < MaxFaces
    /\ \E face \in StlFaces(Len(vertices)) :
        LET r == ConvertFace(face) IN
        /\ cur' = [kind |-> "stl_face", rec |-> face]
        /\ content' = MeansFace({face})
        /\ IF r.ok
             THEN /\ indices' = Append(indices, r.val)
                  /\ UNCHANGED <<pc, result>>
             ELSE /\ Fail(r.err)
                  /\ UNCHANGED indices
    /\ rec_i' = rec_i + 1
    /\ UNCHANGED <<file_path, scale, flags, invoked, vertices, meshes, raw,
                   passed_flags, stdout>>

StlReturn ==
    /\ pc = "stl_face"
    /\ Return(vertices, indices)
    /\ UNCHANGED <<file_path, scale, flags, invoked, rec_i, cur, meshes, content,
                   passed_flags, result, stdout>>

-----------------------------------------------------------------------------
(* load_trimesh_from_obj *)

FlatPoints(ps) == Flatten(ps)

FlatTris(ts) == Flatten(ts)

\* a tobj model: mesh.positions, mesh.indices (indices of the model's own
\* positions) and mesh.face_arities (empty when every face is a triangle)
ObjModel(positions, idx, arities) ==
    [positions |-> positions, indices |-> idx, face_arities |-> arities]

ObjModels ==
    {ObjModel(FlatPoints(ps), FlatTris(e[1]), e[2]) :
        ps \in {<<>>, <<P1>>, <<Point(0, 0, 0), P1, P1>>},
        e \in {<<<<>>, <<>>>>,
               <<<<Tri(0, 0, 0)>>, <<>>>>,
               <<<<Tri(0, 1, 2)>>, <<>>>>,
               <<<<Tri(2, 1, 0), Tri(0, 1, 2)>>, <<>>>>,
               <<<<Tri(0, 1, 2), <<Wide(0)>>>>, <<4>>>>}}

ValidObjModel(m) ==
    \A k \in 1..Len(m.indices) : WideLess(m.indices[k], Wide(Len(m.positions) \div 3))

\* what a model means: its points (f64 units) and its triangles
ModelPoints(positions) ==
    LET ps == chunks_exact3(positions) IN
    [j \in 1..Len(ps) |-> [k \in 1..3 |-> as_f64(ps[j][k])]]

MeansMesh(wf, positions, tris) ==
    IF wf
    THEN [content EXCEPT !.parts = @ + 1, !.V = @ \o ModelPoints(positions),
                         !.T = @ \o tris]
    ELSE [content EXCEPT !.parts = @ + 1, !.wf = FALSE]

ObjLoadFails ==
    ParseFails("obj_load", "Failed to load OBJ file '{}': {}", <<file_path, ParseError>>)

ObjLoad == Goto("obj_load", "obj_model")

\* one iteration of `for model in models`
ObjModelStep(models) ==
    /\ pc = "obj_model"
    /\ rec_i < MaxGeoms
    /\ \E model \in {m \in models : ValidObjModel(m)} :
        /\ cur' = [kind |-> "obj_model", rec |-> model]
        /\ content' = MeansMesh(model.face_arities = <<>> /\ Len(model.positions) % 3 = 0,
                                model.positions, chunks_exact3(model.indices))
        /\ vertices' = vertices \o chunks_exact3(model.positions)
        /\ indices' = indices \o chunks_exact3(model.indices)
    /\ rec_i' = rec_i + 1
    /\ UNCHANGED <<pc, file_path, scale, flags, invoked, meshes, raw, passed_flags,
                   result, stdout>>

ObjReturn ==
    /\ pc = "obj_model"
    /\ Return(vertices, indices)
    /\ UNCHANGED <<file_path, scale, flags, invoked, rec_i, cur, meshes, content,
                   passed_flags, result, stdout>>

-----------------------------------------------------------------------------
(* load_trimesh_from_dae *)

Input(semantic, source) == [semantic |-> semantic, source |-> source]
Source(id, array) == [id |-> id, array |-> array]
FloatArray(vals) == {[type |-> "Float", vals |-> vals]}

\* a primitive: `stride` indices per vertex in prim (one per input offset),
\* the index of the vertex first
Primitive(kind, prim, stride) == [kind |-> kind, prim |-> prim, stride |-> stride]

\* an item met by the two outer loops: an element of a library
Item(library, element, verts, sources, elements) ==
    [library |-> library, element |-> element,
     mesh |-> [vertices |-> verts, sources |-> sources, elements |-> elements]]

PositionInput == Input("Position", <<"#", "pos">>)

Triangle3 == <<Point(0, 0, 0), P1, P1>>

DaeMesh(positions, prim, stride) ==
    Item("Geometries", "Mesh", {<<PositionInput>>},
         <<Source({<<"pos">>}, FloatArray(positions))>>,
         <<Primitive("Triangles", {prim}, stride)>>)

GoodDaeItems ==
    {DaeMesh(FlatPoints(ps), e[1], e[2]) :
        ps \in {<<>>, <<P1>>, Triangle3},
        e \in {<<<<>>, 1>>,
               <<FlatTris(<<Tri(0, 1, 2)>>), 1>>,
               <<FlatTris(<<Tri(2, 1, 0), Tri(0, 1, 2)>>), 1>>,
               <<<<U32Max, Wide(0), Wide(1)>>, 1>>,
               <<WideList(<<0, 0, 1, 1, 2, 2>>), 2>>}}

BaseItem == DaeMesh(FlatPoints(Triangle3), FlatTris(<<Tri(0, 1, 2)>>), 1)

WithVertices(v) == [BaseItem EXCEPT !.mesh.vertices = v]
WithSources(ss) == [BaseItem EXCEPT !.mesh.sources = ss]
WithElements(es) == [BaseItem EXCEPT !.mesh.elements = es]

OddDaeItems ==
    {[BaseItem EXCEPT !.library = "Materials"],
     [BaseItem EXCEPT !.element = "Spline"],
     WithVertices({}),
     WithVertices({<<Input("Position", <<"pos">>)>>}),
     WithVertices({<<Input("Normal", <<"#", "pos">>)>>}),
     WithVertices({<<Input("Position", <<"#", "other">>)>>}),
     WithSources(<<Source({}, FloatArray(FlatPoints(Triangle3)))>>),
     WithSources(<<Source({<<"pos">>}, {})>>),
     WithSources(<<Source({<<"pos">>}, {[type |-> "Int", vals |-> <<0, 0, 0>>]})>>),
     WithSources(<<Source({<<"pos">>}, FloatArray(FlatPoints(<<P1>>) \o <<One>>))>>),
     WithElements(<<Primitive("Triangles", {}, 1)>>),
     WithElements(<<Primitive("Polylist", {FlatTris(<<Tri(0, 1, 2)>>)}, 1)>>),
     WithElements(<<Primitive("Triangles", {WideList(<<0, 1, 2, 0>>)}, 1)>>),
     WithElements(<<Primitive("Triangles", {FlatTris(<<Tri(0, 1, 2)>>)}, 1),
                    Primitive("Triangles", {FlatTris(<<Tri(2, 1, 0)>>)}, 1)>>)}

DaeItems == GoodDaeItems \cup OddDaeItems

\* source_uri.strip_prefix('#').unwrap_or(&*source_uri)
strip_prefix(uri) == IF uri # <<>> /\ Head(uri) = "#" THEN Tail(uri) ELSE uri

\* the points pushed for one input of mesh.vertices
InputVertices(mesh, input) ==
    IF input.semantic = "Position"
    THEN Flatten([j \in 1..Len(mesh.sources) |->
            LET source == mesh.sources[j] IN
            IF source.id = {strip_prefix(input.source)}
               /\ \E a \in source.array : a.type = "Float"
            THEN chunks_exact3((CHOOSE a \in source.array : TRUE).vals)
            ELSE <<>>])
    ELSE <<>>

\* mesh_vertices after the loop over mesh.vertices' inputs
MeshVertices(mesh) ==
    Flatten([v \in 1..Cardinality(mesh.vertices) |->
        LET inputs == CHOOSE x \in mesh.vertices : TRUE IN
        Flatten([j \in 1..Len(inputs) |-> InputVertices(mesh, inputs[j])])])

\* mesh_indices after the loop over mesh.elements
MeshIndices(mesh) ==
    Flatten([j \in 1..Len(mesh.elements) |->
        LET primitive == mesh.elements[j] IN
        IF primitive.kind = "Triangles" /\ primitive.prim # {}
        THEN chunks_exact3(CHOOSE x \in primitive.prim : TRUE)
        ELSE <<>>])

\* what a mesh geometry means: the triangles of its primitives, each vertex
\* index being the first of the `stride` indices of the vertex
PrimitiveTriangles(primitive) ==
    LET prim == CHOOSE x \in primitive.prim : TRUE
        n == Len(prim) \div (3 * primitive.stride)
    IN  [t \in 1..n |-> [k \in 1..3 |-> prim[(3 * (t - 1) + (k - 1)) * primitive.stride + 1]]]

WellFormedDaeMesh(mesh) ==
    /\ \E inputs \in mesh.vertices :
        /\ Len(inputs) = 1
        /\ inputs[1].semantic = "Position"
        /\ Len(mesh.sources) = 1
        /\ mesh.sources[1].id = {strip_prefix(inputs[1].source)}
    /\ \E a \in mesh.sources[1].array : a.type = "Float" /\ Len(a.vals) % 3 = 0
    /\ \A j \in 1..Len(mesh.elements) :
        /\ mesh.elements[j].kind = "Triangles"
        /\ \E prim \in mesh.elements[j].prim :
            Len(prim) % (3 * mesh.elements[j].stride) = 0

DaeTriangles(mesh) ==
    Flatten([j \in 1..Len(mesh.elements) |-> PrimitiveTriangles(mesh.elements[j])])

DaeOpenFails ==
    ParseFails("dae_open", "Failed to open .dae file: {}", <<IoError>>)

DaeOpen == Goto("dae_open", "dae_parse")

DaeParseFails ==
    ParseFails("dae_parse", "Failed to parse .dae file {:?}", <<ParseError>>)

DaeParse == Goto("dae_parse", "dae_geometry")

\* one item of the loops over document.library and geometry.items
DaeGeometry(items) ==
    /\ pc = "dae_geometry"
    /\ rec_i < MaxGeoms
    /\ \E item \in items :
        /\ cur' = [kind |-> "dae_item", rec |-> item]
        /\ IF item.library = "Geometries" /\ item.element = "Mesh"
              /\ item.mesh.vertices # {}
             THEN /\ meshes' = Append(meshes, SubMesh(MeshVertices(item.mesh),
                                                      MeshIndices(item.mesh)))
                  /\ content' =
                        IF WellFormedDaeMesh(item.mesh)
                        THEN MeansMesh(TRUE,
                                       (CHOOSE a \in item.mesh.sources[1].array : TRUE).vals,
                                       DaeTriangles(item.mesh))
                        ELSE MeansMesh(FALSE, <<>>, <<>>)
             ELSE UNCHANGED <<meshes, content>>
    /\ rec_i' = rec_i + 1
    /\ UNCHANGED <<pc, file_path, scale, flags, invoked, vertices, indices, raw,
                   passed_flags, result, stdout>>

\* the end of load_trimesh_from_dae: Err, or Ok(merge_meshes(meshes))
DaeFinish ==
    /\ pc = "dae_geometry"
    /\ IF meshes = <<>>
         THEN /\ Fail(Msg("The file contains no mesh", <<>>))
              /\ UNCHANGED <<vertices, indices, raw, stdout>>
         ELSE \E checks \in BOOLEAN :
                LET r == merge_meshes(meshes, checks) IN
                IF r.kind = "panic"
                THEN /\ pc' = "done"
                     /\ result' = OverflowPanic
                     /\ UNCHANGED <<vertices, indices, raw, stdout>>
                ELSE /\ Return(r.vertices, r.indices)
                     /\ stdout' = stdout \o r.out
                     /\ UNCHANGED result
    /\ UNCHANGED <<file_path, scale, flags, invoked, rec_i, cur, meshes, content,
                   passed_flags>>

-----------------------------------------------------------------------------
(* Scaling and TriMesh::with_flags *)

\* (the test without .abs())
ScaleAllNoAbs(v, k) ==
    IF k - One > Epsilon
    THEN [j \in 1..Len(v) |-> ScaleVertex(v[j], k)]
    ELSE v

\* if (scale - 1.0).abs() > f32::EPSILON { for vertex in &mut vertices { .. } }
ScaleAll(v, k) ==
    IF Abs(k - One) > Epsilon
    THEN [j \in 1..Len(v) |-> ScaleVertex(v[j], k)]
    ELSE v

Scale ==
    /\ pc = "scale"
    /\ pc' = "finalize"
    /\ vertices' = ScaleAll(vertices, scale)
    /\ UNCHANGED <<file_path, scale, flags, invoked, rec_i, cur, indices, meshes,
                   content, raw, passed_flags, result, stdout>>

\* every index of every triangle is the index of a vertex
IndicesInRange(v, i) ==
    \A j \in 1..Len(i) : \A k \in 1..3 : WideLess(i[j][k], Wide(Len(v)))

\* MERGE_DUPLICATE_VERTICES: each vertex kept once, at its first place
FirstPlace(v, j) == CHOOSE m \in 1..j : v[m] = v[j] /\ \A n \in 1..(m - 1) : v[n] # v[j]

Kept(v) == {j \in 1..Len(v) : FirstPlace(v, j) = j}

NewPlace(v, j) == Cardinality({m \in Kept(v) : m <= FirstPlace(v, j)})

MergedVertices(v) ==
    [n \in 1..Cardinality(Kept(v)) |-> v[CHOOSE j \in Kept(v) : NewPlace(v, j) = n]]

MergedIndices(v, i) ==
    [j \in 1..Len(i) |-> [k \in 1..3 |-> Wide(NewPlace(v, i[j][k][2] + 1) - 1)]]

\* (the flags of load_trimesh whatever the caller gave)
FinalizerFlagsDefault(f) == {FIX_INTERNAL_EDGES, MERGE_DUPLICATE_VERTICES}

\* the flags the load hands to TriMesh::with_flags
FinalizerFlags(f) == f

\* TriMesh::with_flags(vertices, indices, flags): the outcomes the library can
\* have.  It keeps the buffers as they are under no flag, and it is not made
\* for a mesh without triangles or with an index of no vertex.
with_flags(v, i, f) ==
    IF i = <<>> \/ ~IndicesInRange(v, i)
    THEN {Panic(Msg("TriMesh::with_flags", <<>>)), Ok(v, i, f)}
    ELSE IF MERGE_DUPLICATE_VERTICES \in f
    THEN {Ok(MergedVertices(v), MergedIndices(v, i), f)}
    ELSE {Ok(v, i, f)}

\* Ok(TriMesh::with_flags(vertices, indices, flags))
Finalize ==
    /\ pc = "finalize"
    /\ pc' = "done"
    /\ passed_flags' = FinalizerFlags(flags)
    /\ result' \in with_flags(vertices, indices, FinalizerFlags(flags))
    /\ UNCHANGED <<file_path, scale, flags, invoked, rec_i, cur, vertices, indices,
                   meshes, content, raw, stdout>>

-----------------------------------------------------------------------------
(* The load *)

DefaultFlags == {FIX_INTERNAL_EDGES, MERGE_DUPLICATE_VERTICES}

\* one path of each kind
FewPaths ==
    {<<"a", Dot, "stl">>, <<"a", Dot, "Ply">>, <<"a", Dot, "obj">>, <<"a", Dot, "DAE">>,
     <<"a", Dot, "xyz">>, <<"a">>}

\* the records the documents are made of
AllRecords ==
    [ply_vertices |-> PlyVertexRecs, ply_faces |-> PlyFaceRecs, stl_points |-> Points,
     obj_models |-> ObjModels, dae_items |-> DaeItems]

\* a few of them, for the loads under every scale and flag set
FewRecords ==
    [ply_vertices |-> {PlyVertexRec(p, "Float") : p \in Points}
                      \cup {Without(PlyVertexRec(P1, "Float"), "z")},
     ply_faces |-> {PlyFaceRec(ListUInt, WideList(<<0, 1, 2>>)),
                    PlyFaceRec(ListInt, WideList(<<-1, 1, 2>>))},
     stl_points |-> Points,
     obj_models |-> {ObjModel(FlatPoints(Triangle3), FlatTris(<<Tri(0, 1, 2)>>), <<>>),
                     ObjModel(FlatPoints(<<P1>>), <<>>, <<>>)},
     dae_items |-> {BaseItem, DaeMesh(FlatPoints(<<P1>>), <<>>, 1),
                    [BaseItem EXCEPT !.library = "Materials"]}]

Extract(R) ==
    \/ PlyOpenFails \/ PlyOpen \/ PlyParseFails \/ PlyNoVertexPayload \/ PlyParse
    \/ PlyVertex(R.ply_vertices) \/ PlyNoFacePayload \/ PlyVertexEnd
    \/ PlyFace(R.ply_faces) \/ PlyReturn
    \/ StlOpenFails \/ StlOpen \/ StlParseFails \/ StlParse
    \/ StlVertex(R.stl_points) \/ StlVertexEnd \/ StlFace \/ StlReturn
    \/ ObjLoadFails \/ ObjLoad \/ ObjModelStep(R.obj_models) \/ ObjReturn
    \/ DaeOpenFails \/ DaeOpen \/ DaeParseFails \/ DaeParse
    \/ DaeGeometry(R.dae_items) \/ DaeFinish

\* every load, over a few documents
Next ==
    \/ load_trimesh(FewPaths, Scales)
    \/ load_trimesh_with_flags(FewPaths, Scales, FlagSets)
    \/ Dispatch
    \/ Extract(FewRecords)
    \/ Scale
    \/ Finalize

Spec == Init /\ [][Next]_vars

\* the loads without scaling and flags, over every document of the bounds
NextExtract ==
    \/ load_trimesh_with_flags(FewPaths, {One}, {NoFlags})
    \/ Dispatch
    \/ Extract(AllRecords)
    \/ Scale
    \/ Finalize

SpecExtract == Init /\ [][NextExtract]_vars

\* the dispatcher alone, over every path of the bound
NextDispatch ==
    \/ load_trimesh(Paths, {One})
    \/ load_trimesh_with_flags(Paths, {One}, {NoFlags})
    \/ Dispatch

SpecDispatch == Init /\ [][NextDispatch]_vars

-----------------------------------------------------------------------------
(* Properties *)

\* the extension is one of the spellings of the format's name
Spellings(format) ==
    CASE format = "stl" -> {"stl", "STL"}
      [] format = "ply" -> {"ply", "Ply"}
      [] format = "obj" -> {"obj"}
      [] format = "dae" -> {"dae", "DAE"}

Formats == {"stl", "ply", "obj", "dae"}

HasFormat(p, format) == \E e \in extension(p) : Len(e) = 1 /\ e[1] \in Spellings(format)

Dispatched == pc \notin {"idle", "dispatch"}

RECURSIVE VerticesBefore(_, _)
VerticesBefore(ms, k) ==
    IF k <= 1 THEN 0 ELSE Len(ms[k - 1].vertices) + VerticesBefore(ms, k - 1)

ConcatenatedVertices(ms) == Flatten([k \in 1..Len(ms) |-> ms[k].vertices])

\* every index of sub-mesh k plus the number of vertices of sub-meshes 1..k-1
RebasedIndices(ms) ==
    Flatten([k \in 1..Len(ms) |->
        [j \in 1..Len(ms[k].indices) |->
            [c \in 1..3 |-> WideSum(ms[k].indices[j][c], Wide(VerticesBefore(ms, k)))]]])

\* C1: merge_meshes returns, for every non-empty sequence of sub-meshes, the
\* concatenation of their vertices and the concatenation of their triangles,
\* each index increased by the number of vertices of the earlier sub-meshes.
MergeConcatenatesAndRebases ==
    (pc = "merge_done" /\ meshes # <<>>) =>
        /\ result.kind # "panic"
        /\ vertices = ConcatenatedVertices(meshes)
        /\ indices = RebasedIndices(meshes)

\* C2: every raw mesh an extractor returns, and every mesh a load with empty
\* flags returns, has all its indices below its number of vertices.
ExtractedIndicesInRange ==
    /\ pc = "scale" => IndicesInRange(vertices, indices)
    /\ (pc = "done" /\ result.kind = "ok" /\ flags = NoFlags) =>
            IndicesInRange(result.mesh.vertices, result.mesh.indices)

\* the content can be written in each of the four formats: f32 coordinates
\* and u32 indices, each of them the place of a vertex
InEveryFormat(c) ==
    /\ \A j \in 1..Len(c.V) : \A k \in 1..3 : c.V[j][k] % Finer = 0
    /\ \A j \in 1..Len(c.T) : \A k \in 1..3 : FitsU32(c.T[j][k])
    /\ IndicesInRange(c.V, c.T)

AsDoubles(v) == [j \in 1..Len(v) |-> [k \in 1..3 |-> as_f64(v[j][k])]]

\* C3: a document of one geometry that holds a vertex list and a triangle
\* list yields exactly these, whatever its format and encoding.
FormatEquivalence ==
    (pc = "scale" /\ content.wf /\ content.parts = 1 /\ InEveryFormat(content)) =>
        /\ AsDoubles(vertices) = content.V
        /\ indices = content.T

\* C4: the extractor invoked is the one of the extension's format, whatever
\* the case of the extension's letters, and no extractor is invoked otherwise.
DispatchByExtension ==
    Dispatched =>
        /\ \A f \in Formats :
            HasFormat(file_path, f) <=> (invoked = <<f>> /\ pc = FirstStep(f))
        /\ invoked = <<>> \/ \E f \in Formats : invoked = <<f>>

DispatchByExtensionWitness ==
    /\ pc = "stl_open"
    /\ invoked = <<"stl">>
    /\ extension(file_path) = {<<"STL">>}

\* C5: a path without a recognized extension ends the load with the
\* unsupported-format error, no extractor invoked, and the error holds the
\* extension.
UnsupportedExtensionError ==
    (Dispatched /\ \A f \in Formats : ~HasFormat(file_path, f)) =>
        /\ pc = "done"
        /\ invoked = <<>>
        /\ result.kind = "err"
        /\ \A e \in extension(file_path) :
            \E k \in 1..Len(result.err.args) : Contains(result.err.args[k], e)

UnsupportedExtensionWitness ==
    /\ pc = "done"
    /\ result.kind = "err"
    /\ extension(file_path) = {<<"xyz">>}

\* the face read last is a PLY face with an index list of one of the four types
PlyIndexList ==
    /\ cur.kind = "ply_face"
    /\ "vertex_indices" \in DOMAIN cur.rec
    /\ cur.rec.vertex_indices.type \in IndexListTypes

Negative(w) == w[1] < 0

\* C6: a face whose list starts with three values every encoding holds gives
\* the triangle of these three values, in order, whatever the encoding and
\* whatever follows in the list.
PlyTriangleIsFirstThree ==
    (/\ PlyIndexList
     /\ Len(cur.rec.vertex_indices.val) >= 3
     /\ \A k \in 1..3 : ~Negative(cur.rec.vertex_indices.val[k])) =>
        /\ result.kind # "err"
        /\ Len(indices) = rec_i
        /\ indices[rec_i] = SubSeq(cur.rec.vertex_indices.val, 1, 3)

PlyTriangleWitness ==
    /\ PlyIndexList
    /\ cur.rec.vertex_indices.type = ListShort
    /\ cur.rec.vertex_indices.val = WideList(<<0, 1, 2, -1>>)
    /\ indices = <<Tri(2, 0, 3), Tri(0, 1, 2)>>

\* C7: a face whose list has fewer than three elements ends the load with an
\* error that holds the index of the face; no panic, no triangle for the face.
ShortFaceRejected ==
    (PlyIndexList /\ Len(cur.rec.vertex_indices.val) < 3) =>
        /\ pc = "done"
        /\ result.kind = "err"
        /\ result.err.args = <<rec_i - 1>>
        /\ Len(indices) = rec_i - 1

ShortFaceWitness ==
    /\ PlyIndexList
    /\ Len(cur.rec.vertex_indices.val) = 2
    /\ rec_i = 2
    /\ result.kind = "err"

Range(s) == {s[k] : k \in 1..Len(s)}

\* C8: an STL index beyond u32, or a negative index among those a PLY face
\* converts, ends the load with an error that holds the face; a triangle that
\* is produced holds the values of its source.
NoTruncationOrWrap ==
    /\ (cur.kind = "stl_face" /\ \E k \in 1..3 : ~FitsU32(cur.rec[k])) =>
            /\ pc = "done"
            /\ result.kind = "err"
            /\ cur.rec \in Range(result.err.args)
            /\ Len(indices) = rec_i - 1
    /\ (/\ PlyIndexList
        /\ Len(cur.rec.vertex_indices.val) >= 3
        /\ \E k \in 1..3 : Negative(cur.rec.vertex_indices.val[k])) =>
            /\ pc = "done"
            /\ result.kind = "err"
            /\ result.err.args = <<rec_i - 1>>
            /\ Len(indices) = rec_i - 1
    /\ (cur.kind = "stl_face" /\ Len(indices) = rec_i) =>
            \A k \in 1..3 : indices[rec_i][k] = cur.rec[k]
    /\ (PlyIndexList /\ Len(indices) = rec_i) =>
            \A k \in 1..3 : indices[rec_i][k] = cur.rec.vertex_indices.val[k]

NoTruncationWitness ==
    /\ PlyIndexList
    /\ cur.rec.vertex_indices.type = ListShort
    /\ Len(cur.rec.vertex_indices.val) = 3
    /\ Negative(cur.rec.vertex_indices.val[3])
    /\ result.kind = "err"
    /\ rec_i = 2

\* the vertices of the raw mesh under scale k
Scaled(v, k) ==
    [j \in 1..Len(v) |->
        IF k - One > Epsilon \/ One - k > Epsilon
        THEN [c \in 1..3 |-> FMul(k, v[j][c])]
        ELSE v[j]]

\* C9: with empty flags the mesh returned has the indices of the raw mesh and
\* its vertices times the scale, or its vertices as they are when the scale
\* is within the epsilon of 1.0; the scaling is done once, before the
\* finalization.
ScaleLinearity ==
    /\ pc = "scale" => vertices = raw.vertices
    /\ pc = "finalize" =>
            vertices = Scaled(raw.vertices, scale) /\ result.kind = "none"
    /\ (pc = "done" /\ result.kind = "ok" /\ flags = NoFlags) =>
            /\ Len(result.mesh.vertices) = Len(raw.vertices)
            /\ result.mesh.vertices = Scaled(raw.vertices, scale)
            /\ result.mesh.indices = raw.indices

ScaleLinearityWitness ==
    /\ pc = "done"
    /\ result.kind = "ok"
    /\ flags = NoFlags
    /\ scale = One \div 2
    /\ raw.vertices = Triangle3
    /\ result.mesh.vertices # raw.vertices

\* C10: the finalizer gets the flags of the caller, and under the empty set
\* the mesh returned is the raw mesh, scaled: same vertices and triangles, in
\* the same order.
FlagsPassedThrough ==
    (pc = "done" /\ result.kind = "ok") =>
        /\ passed_flags = flags
        /\ result.mesh.flags = flags
        /\ flags = NoFlags =>
            /\ result.mesh.vertices = Scaled(raw.vertices, scale)
            /\ result.mesh.indices = raw.indices

FlagsPassedThroughWitness ==
    /\ pc = "done"
    /\ result.kind = "ok"
    /\ flags = NoFlags
    /\ passed_flags = NoFlags
    /\ result.mesh.vertices = Triangle3
    /\ result.mesh.indices = <<Tri(0, 1, 2)>>

\* the DAE extractor has read the document to its end
DaeRead ==
    /\ invoked = <<"dae">>
    /\ pc \in {"scale", "finalize", "done"}
    /\ ~(result.kind = "err" /\ result.err.text \in
            {"Failed to open .dae file: {}", "Failed to parse .dae file {:?}"})

\* no vertex and no triangle was collected from any geometry
NothingCollected ==
    \A k \in 1..Len(meshes) : meshes[k].vertices = <<>> /\ meshes[k].indices = <<>>

EmptyMeshError == result = Err(Msg("The file contains no mesh", <<>>))

\* C11: the DAE extractor ends with the empty-mesh error when no geometry gave
\* a vertex or a triangle, and only then; otherwise it returns a mesh.
EmptyMeshErrorIffNoContent ==
    DaeRead => (NothingCollected <=> EmptyMeshError)

\* the coordinates of a vertex record that are missing, and those of a type
\* that is neither Float nor Double
Missing(rec) == {c \in Range(Coords) : c \notin DOMAIN rec}

Mistyped(rec) == {c \in Range(Coords) \ Missing(rec) : rec[c].type \notin {"Float", "Double"}}

\* the message holds the value among its arguments
Names(msg, a) == \E k \in 1..Len(msg.args) : ToString(msg.args[k]) = ToString(a)

\* C12: a PLY vertex record with a coordinate of another type than the two
\* floats ends the load with the type error holding the coordinate and the
\* index of the record; a record lacking a coordinate ends it with the
\* missing-coordinate error holding the index of the record.
VertexErrorsNameRecord ==
    (cur.kind = "ply_vertex" /\ Missing(cur.rec) \cup Mistyped(cur.rec) # {}) =>
        /\ pc = "done"
        /\ result.kind = "err"
        /\ \/ /\ result.err.text = "Unexpected type for vertex '{c}' coordinate"
              /\ \E c \in Mistyped(cur.rec) : Names(result.err, c)
           \/ /\ result.err.text = "Missing '{c}' coordinate in vertex"
              /\ Missing(cur.rec) # {}
        /\ Names(result.err, rec_i - 1)

\* the outcome of reading the record read last: where it fails, its error
Examined ==
    CASE cur.kind = "ply_vertex" -> ReadVertex(cur.rec)
      [] cur.kind = "ply_face" -> ReadFace(cur.rec, rec_i - 1)
      [] cur.kind = "stl_face" -> ConvertFace(cur.rec)
      [] OTHER -> [ok |-> TRUE]

\* a load that has ended has returned a mesh or an error, an error comes
\* without a mesh, and the error of a record that fails is the one returned
MeshOrError ==
    /\ pc = "done" <=> result.kind # "none"
    /\ result.kind \in {"none", "ok", "err"}
    /\ result.kind = "ok" => DOMAIN result = {"kind", "mesh"}
    /\ result.kind = "err" => DOMAIN result = {"kind", "err"}
    /\ ~Examined.ok => result = Err(Examined.err)

\* C13: a load returns a mesh or an error and nothing else; the first failure
\* ends it with that very error, and no step (no later record, no scaling, no
\* finalization) is taken once there is a result.
FirstFailureEndsLoad ==
    /\ []MeshOrError
    /\ [][result.kind = "none"]_vars

\* C14: a load writes nothing to the standard output, on any path through
\* dispatch, extraction, merge, scaling and finalization.
NothingPrinted == stdout = <<>>

\* C15: every index merge_meshes returns is the unbounded sum of the index in
\* its sub-mesh and the number of vertices of the earlier sub-meshes, also
\* beyond the range of u32.
MergeNeverWraps ==
    (pc = "merge_done" /\ result.kind # "panic") =>
        \A j \in 1..Len(RebasedIndices(meshes)) :
            Len(indices) >= j /\ indices[j] = RebasedIndices(meshes)[j]

====
